---- MODULE Spec2Model ----
(***************************************************************************)
(* The servo motion controller of Rufus, in its two variants:             *)
(*   "server": src/pi_api_server.py       (Flask handlers, fire-and-forget *)
(*             send_servo_command, GESTURES catalog of discrete steps)     *)
(*   "voice":  src/voice_stt_tts_fixed.py (interactive loop, acknowledged  *)
(*             send_servo_command, smooth_move, gestures and moods)         *)
(* Bytes are named tokens ("O", "K", "CR", "LF", "SP", "0xFF", digits);    *)
(* a line is a tuple of bytes.  time.sleep only paces the code and is a    *)
(* point where the device may act.                                         *)
(***************************************************************************)
EXTENDS Integers, Sequences, FiniteSets, TLC

\* ------------------------------------------------------------------ bounds
\* Capacity of the host's serial input buffer, in lines.
MaxRx == 2
\* Calls (requests, loop commands) started in one behaviour.
MaxCalls == 2
\* Writes that raise an I/O exception in one behaviour.
MaxFaults == 1
\* add_to_memory calls between two clear_memory calls.
MaxAdds == 23

\* ---------------------------------------------------------------- catalogs
Variants == {"server", "voice"}

\* Python's None, for a handle, a dict.get miss, and a function without return.
None == "None"

SERVO_PINS_server == [pan |-> 2, left_arm |-> 4, right_arm |-> 5]

SERVO_PINS_voice == [head |-> 2, pan |-> 2, left_arm |-> 4, right_arm |-> 5]

SERVO_PINS(v) == IF v = "server" THEN SERVO_PINS_server ELSE SERVO_PINS_voice

SERVO_REST == [head |-> 90, pan |-> 90, left_arm |-> 90, right_arm |-> 90]

\* `pin = d.get(key)`: the pin, or None, which is written 0 here (no pin is 0).
Pin(d, k) == IF k \in DOMAIN d THEN d[k] ELSE 0

\* The test for an unknown name left out.
Missing_never(d, k) == FALSE

\* `if not pin:`
Missing(d, k) == Pin(d, k) = 0

\* dict.get(key, default)
DictGetDefault(d, k, default) == IF k \in DOMAIN d THEN d[k] ELSE default

GESTURES ==
  [ wave    |-> << <<"pan", 90>>, <<"right_arm", 70>>, <<"right_arm", 40>>,
                   <<"right_arm", 70>>, <<"right_arm", 40>>, <<"right_arm", 70>>,
                   <<"right_arm", 40>>, <<"left_arm", 90>>, <<"right_arm", 90>> >>,
    nod     |-> << <<"pan", 105>>, <<"pan", 75>>, <<"pan", 105>>, <<"pan", 75>>,
                   <<"pan", 90>> >>,
    shake   |-> << <<"pan", 65>>, <<"pan", 115>>, <<"pan", 65>>, <<"pan", 115>>,
                   <<"pan", 90>> >>,
    happy   |-> << <<"left_arm", 170>>, <<"right_arm", 170>>, <<"pan", 75>>,
                   <<"pan", 105>>, <<"pan", 75>>, <<"pan", 105>>,
                   <<"left_arm", 90>>, <<"right_arm", 90>>, <<"pan", 90>> >>,
    sad     |-> << <<"pan", 50>>, <<"left_arm", 60>>, <<"right_arm", 60>>,
                   <<"pan", 50>>, <<"left_arm", 90>>, <<"right_arm", 90>>,
                   <<"pan", 90>> >>,
    excited |-> << <<"left_arm", 170>>, <<"right_arm", 170>>, <<"pan", 60>>,
                   <<"pan", 120>>, <<"left_arm", 90>>, <<"right_arm", 90>>,
                   <<"pan", 90>> >>,
    curious |-> << <<"pan", 70>>, <<"left_arm", 110>>, <<"right_arm", 110>>,
                   <<"pan", 70>>, <<"left_arm", 90>>, <<"right_arm", 90>>,
                   <<"pan", 90>> >>,
    rest    |-> << <<"pan", 90>>, <<"left_arm", 90>>, <<"right_arm", 90>> >> ]

\* One smooth_move(servo, target_angle, steps) call of a gesture function.
Move(servo, target, steps) == [servo |-> servo, target |-> target, steps |-> steps]

\* smooth_move's default steps=10.
DefaultSteps == 10

\* `for _ in range(n): body`
RECURSIVE Repeat(_, _)
Repeat(n, body) == IF n = 0 THEN <<>> ELSE body \o Repeat(n - 1, body)

\* The rest sequence without its last move.
gesture_rest_short ==
  << Move("head", 90, DefaultSteps), Move("left_arm", 90, DefaultSteps) >>

gesture_rest ==
  << Move("head", 90, DefaultSteps), Move("left_arm", 90, DefaultSteps),
     Move("right_arm", 90, DefaultSteps) >>

gesture_wave ==
  << Move("head", 90, DefaultSteps) >>
  \o Repeat(3, << Move("right_arm", 70, 5), Move("right_arm", 40, 5) >>)
  \o gesture_rest

gesture_nod ==
  Repeat(2, << Move("head", 105, 5), Move("head", 75, 5) >>)
  \o << Move("head", 90, DefaultSteps) >>

gesture_shake ==
  Repeat(2, << Move("head", 65, 5), Move("head", 115, 5) >>)
  \o << Move("head", 90, DefaultSteps) >>

mood_happy ==
  << Move("left_arm", 170, 5), Move("right_arm", 170, 5) >>
  \o Repeat(3, << Move("head", 75, 3), Move("head", 105, 3) >>)
  \o gesture_rest

mood_sad ==
  << Move("head", 50, 10), Move("left_arm", 60, 10), Move("right_arm", 60, 10) >>
  \o gesture_rest

mood_excited ==
  << Move("left_arm", 170, 3), Move("right_arm", 170, 3) >>
  \o Repeat(2, << Move("head", 60, 4), Move("head", 120, 4) >>)
  \o gesture_rest

mood_curious ==
  << Move("head", 70, 10), Move("left_arm", 110, 10), Move("right_arm", 110, 10) >>
  \o gesture_rest

\* The dispatch table of perform_gesture (voice).
gestures ==
  [ wave |-> gesture_wave, nod |-> gesture_nod, shake |-> gesture_shake,
    rest |-> gesture_rest ]

\* The dispatch table of perform_mood_gesture (voice).
mood_gestures ==
  [ happy |-> mood_happy, sad |-> mood_sad, excited |-> mood_excited,
    curious |-> mood_curious ]

\* ------------------------------------------------------------ pure helpers
Digit(d) == <<"0", "1", "2", "3", "4", "5", "6", "7", "8", "9">>[d + 1]

\* str(n) for a natural number, as bytes.
RECURSIVE NatToBytes(_)
NatToBytes(n) == IF n < 10 THEN << Digit(n) >>
                 ELSE NatToBytes(n \div 10) \o << Digit(n % 10) >>

\* str(n) for an integer, as bytes.
IntToBytes(n) == IF n < 0 THEN <<"-">> \o NatToBytes(0 - n) ELSE NatToBytes(n)

\* The line ended "\r\n".
Command_crlf(pin, angle) ==
  IntToBytes(pin) \o <<":">> \o IntToBytes(angle) \o <<"CR", "LF">>

\* f"{pin}:{angle}\n".encode('utf-8')
Command(pin, angle) == IntToBytes(pin) \o <<":">> \o IntToBytes(angle) \o <<"LF">>

\* A byte that is not valid UTF-8.
InvalidByte == "0xFF"

\* bytes.decode('utf-8'): raises UnicodeDecodeError on an invalid byte.
DecodeRaises(line) == \E k \in 1..Len(line) : line[k] = InvalidByte

Whitespace == {"SP", "CR", "LF", "TAB"}

\* str.strip(): leading and trailing whitespace removed.
RECURSIVE LStrip(_)
LStrip(s) == IF s # <<>> /\ Head(s) \in Whitespace THEN LStrip(Tail(s)) ELSE s

RECURSIVE RStrip(_)
RStrip(s) == IF s # <<>> /\ s[Len(s)] \in Whitespace
             THEN RStrip(SubSeq(s, 1, Len(s) - 1)) ELSE s

Strip(s) == RStrip(LStrip(s))

\* str.startswith(prefix)
StartsWith(s, prefix) ==
  Len(s) >= Len(prefix) /\ SubSeq(s, 1, Len(prefix)) = prefix

OK == <<"O", "K">>

READY == <<"R", "E", "A", "D", "Y">>

\* int(x) of a quotient num/den, den > 0: truncation toward zero.
Trunc(num, den) == IF num >= 0 THEN num \div den ELSE 0 - ((0 - num) \div den)

Abs(n) == IF n < 0 THEN 0 - n ELSE n

\* The element of a one-element set; {F(x) : x \in {e}} computes e once
\* however often F uses it.
Only(S) == CHOOSE v \in S : TRUE

RECURSIVE Pow2(_)
Pow2(e) == IF e <= 0 THEN 1 ELSE 2 * Pow2(e - 1)

\* 2^e modulo m, by repeated squaring.
RECURSIVE Pow2Mod(_, _)
Pow2Mod(e, m) ==
  IF e = 0 THEN 1 % m
  ELSE IF e % 2 = 0 THEN Only({(r * r) % m : r \in {Pow2Mod(e \div 2, m)}})
  ELSE (2 * Pow2Mod(e - 1, m)) % m

\* The binary exponent of n/den, n and den positive: floor(log2(n/den)).
RECURSIVE FloorLog2(_, _)
FloorLog2(n, den) ==
  IF n >= 2 * den THEN 1 + FloorLog2(n, 2 * den)
  ELSE IF n < den THEN FloorLog2(2 * n, den) - 1
  ELSE 0

IsPow2(n) == n = Pow2(FloorLog2(n, 1))

\* The rounding of the float quotient ad / s (ad, s positive) to 53 bits: with
\* E its exponent and M its mantissa, M * s - ad * 2^(52-E), which is 0 when the
\* quotient is exact, negative when it was rounded down, positive when up.
QuotientError(ad, s) ==
  Only({IF 2 * rho < s THEN 0 - rho ELSE s - rho :
          rho \in {((ad % s) * Pow2Mod(52 - FloorLog2(ad, s), s)) % s}})

\* The float product fl(ad / s) * k where the exact value Np = ad * k / s is an
\* integer and the quotient is off by a units in the last place of Np, g of
\* which make one of the product's: by how many half units in the last place
\* of Np the rounded product differs from it (round to nearest, ties to even;
\* below a power of two the places are half as far apart).
HalfUlps(a, g, Np) ==
  IF a = 0 THEN 0
  ELSE IF a > 0 THEN (IF 2 * a > g THEN 2 ELSE 0)
  ELSE IF IsPow2(Np)
       THEN (IF 4 * (0 - a) <= g THEN 0
             ELSE IF 4 * (0 - a) < 3 * g THEN 0 - 1 ELSE 0 - 2)
  ELSE (IF 2 * (0 - a) > g THEN 0 - 2 ELSE 0)

ProductError(ad, s, k) ==
  Only({HalfUlps(a, g, (ad * k) \div s) :
          a \in {(QuotientError(ad, s) * k) \div s},
          g \in {Pow2(FloorLog2((ad * k) \div s, 1) - FloorLog2(ad, s))}})

\* The float sum current_pos + product, where the exact sum is the integer N
\* (not 0), the exact product has magnitude Np and a sign that is (same = 1)
\* or is not (same = -1) the sign of N, and the rounded product is off by h
\* half units in the last place of Np: the integer part of the rounded sum,
\* which is N, or one less in magnitude when the rounded sum is nearer 0.
RoundedSum(N, Np, same, h) ==
  IF h = 0 THEN N
  ELSE IF (h > 0) = (same = 1) THEN N
  ELSE IF Abs(h) * Pow2(FloorLog2(Np, 1) + 2)
            <= Pow2(FloorLog2(Abs(N), 1) + 2 - (IF IsPow2(Abs(N)) THEN 1 ELSE 0))
       THEN N
  ELSE IF N > 0 THEN N - 1 ELSE N + 1

\* smooth_move's angle of step i (0-based), in double-precision floats:
\*   step_size = (target_angle - current_pos) / steps
\*   angle = int(current_pos + (step_size * (i + 1)))
\* Where the exact value is not an integer the rounding errors are too small
\* to change its integer part; where it is, they decide between the integer
\* and its neighbour toward 0, unless step_size is itself an integer and
\* nothing is rounded.
StepAngle(current_pos, target_angle, steps, i) ==
  IF ((target_angle - current_pos) * (i + 1)) % steps # 0
  THEN Trunc(current_pos * steps + (target_angle - current_pos) * (i + 1), steps)
  ELSE IF (target_angle - current_pos) % steps = 0
          \/ current_pos * steps + (target_angle - current_pos) * (i + 1) = 0
  THEN (current_pos * steps + (target_angle - current_pos) * (i + 1)) \div steps
  ELSE Only({RoundedSum(N, (Abs(d) * (i + 1)) \div steps,
                        IF (d > 0) = (N > 0) THEN 1 ELSE 0 - 1, h) :
               N \in {(current_pos * steps + (target_angle - current_pos) * (i + 1))
                        \div steps},
               d \in {target_angle - current_pos},
               h \in {ProductError(Abs(target_angle - current_pos), steps, i + 1)}})

\* --------------------------------------------------------------- the device
\* Lines the microcontroller may send.
LineOK == <<"O", "K", "CR", "LF">>
LineREADY == <<"R", "E", "A", "D", "Y", "CR", "LF">>
LineERR == <<"E", "R", "R", "CR", "LF">>
LinePadded == <<"SP", "O", "K", "SP", "2", "CR", "LF">>
LineGarbled == <<"O", "K", "0xFF", "LF">>
LineBlank == <<"CR", "LF">>

DeviceLines == {LineOK, LineREADY, LineERR, LinePadded, LineGarbled, LineBlank}

\* All sequences of at most n device lines.
RECURSIVE LinesUpTo(_)
LinesUpTo(n) ==
  IF n <= 0 THEN {<<>>}
  ELSE LinesUpTo(n - 1)
       \cup {Append(s, l) : s \in {x \in LinesUpTo(n - 1) : Len(x) = n - 1}, l \in DeviceLines}

\* The lines that may arrive from the device while the host sleeps or polls:
\* any that the input buffer has room for.
Arrivals(buf) == LinesUpTo(MaxRx - Len(buf))

\* ------------------------------------------------------------------ inputs
Threads == {"main", "worker"}

\* The interactive loop of the voice variant is single-threaded; the server
\* handles each request on a thread of its own.
Callers(v) == IF v = "voice" THEN {"main"} ELSE Threads

ServoNames == {"pan", "head", "left_arm", "tail"}

AngleInputs == {30, 170}

GestureNames == {"wave", "nod", "shake", "rest", "happy", "sad", "excited",
                 "curious", "dance"}

\* The gestures the reply's parser hands to execute_gesture.
ExecuteInputs == {"yes", "no", "neutral"}

TargetInputs == {32, 95}

StepInputs == {0, 1, 7}

Pins == {2, 4, 5}

\* -------------------------------------------------------------------- state
VARIABLES
  variant,   \* which program runs: "server" or "voice"
  arduino,   \* the global handle: NoHandle (None), or a serial.Serial with its is_open
  rx,        \* lines received and not yet read (arduino.in_waiting > 0 iff non-empty)
  init_pc,   \* init_arduino: "start", "loop" (at `while`), "body", "returned"
  init_ret,  \* init_arduino's return value: None until it returns
  pc,        \* per thread: "idle", "run", "done"
  call,      \* per thread: the call in progress or last made
  result,    \* per thread: the last call's return value
  sent,      \* per thread: the send_servo_command calls of the call, in order
  nwrites,   \* per thread: arduino.write calls of the call
  nlines,    \* per thread: lines the call put on the wire
  allok,     \* per thread: no write of the call raised
  split,     \* per thread: another caller's line came between two lines of the call
  wire,      \* the last line on the wire and who wrote it
  lastCmd,   \* per pin: the angle of the last line on the wire for it
  lastRead,  \* the line the last direct send_servo_command read, <<>> if none
  nfaults,   \* writes that raised so far
  ncalls,    \* calls started so far
  readStale, \* the line in lastRead was in the input buffer before the command was written
  firstCall, \* the first call that finished: its name, argument and sends
  conversation_history,  \* the global list of {role, content} entries
  nadded     \* add_to_memory calls since the list was last empty by construction or clear

vars == << variant, arduino, rx, init_pc, init_ret, pc, call, result, sent,
           nwrites, nlines, allok, split, wire, lastCmd, lastRead, nfaults, ncalls,
           readStale, firstCall, conversation_history, nadded >>

memory == << conversation_history, nadded >>

link == << arduino, init_pc, init_ret, variant >>

NoCall == [op |-> "none", arg |-> None, prog |-> <<>>, m |-> 0, i |-> 0]

\* No call has finished yet.
NoPrev == [op |-> "none", arg |-> None, sent |-> <<>>, nlines |-> 0]

\* `arduino = None`: no handle.
NoHandle == [handle |-> FALSE, is_open |-> FALSE]

\* The handle serial.Serial(...) returns: an open port.
Serial == [handle |-> TRUE, is_open |-> TRUE]

NoLine == [by |-> "nobody", text |-> <<>>]

\* No line was read (a line read holds at least its terminator).
NoRead == <<>>

\* Python's True and False as return values, beside None.
PyBool(b) == IF b THEN "True" ELSE "False"

Init ==
  /\ variant \in Variants
  /\ arduino = NoHandle
  /\ rx = <<>>
  /\ init_pc = "start"
  /\ init_ret = None
  /\ pc = [t \in Threads |-> "idle"]
  /\ call = [t \in Threads |-> NoCall]
  /\ result = [t \in Threads |-> None]
  /\ sent = [t \in Threads |-> <<>>]
  /\ nwrites = [t \in Threads |-> 0]
  /\ nlines = [t \in Threads |-> 0]
  /\ allok = [t \in Threads |-> TRUE]
  /\ split = [t \in Threads |-> FALSE]
  /\ wire = NoLine
  /\ lastCmd = [p \in {} |-> 0]
  /\ lastRead = NoRead
  /\ nfaults = 0
  /\ ncalls = 0
  /\ readStale = FALSE
  /\ firstCall = NoPrev
  /\ conversation_history = <<>>
  /\ nadded = 0

\* ------------------------------------------------------------ init_arduino

calls == << pc, call, result, sent, nwrites, nlines, allok, split, wire, lastCmd,
            lastRead, nfaults, ncalls, readStale, firstCall >>

\* arduino = serial.Serial(ARDUINO_PORT, ARDUINO_BAUD, timeout=1); time.sleep(2)
\* The constructor raises when the port cannot be opened: the except clause
\* returns False and the global keeps its None.
init_arduino_open ==
  /\ init_pc = "start"
  /\ \/ /\ arduino' = NoHandle
        /\ init_pc' = "returned"
        /\ init_ret' = "False"
        /\ rx' = rx
     \/ /\ arduino' = Serial
        /\ init_pc' = "loop"
        /\ init_ret' = init_ret
        /\ \E arrived \in Arrivals(rx) : rx' = rx \o arrived
  /\ UNCHANGED << variant, calls, memory >>

\* response = arduino.readline().decode('utf-8').strip(); response == "READY"
\* "raise" when the decode raises, else whether the line is the READY token.
ReadyCheck(line) ==
  IF DecodeRaises(line) THEN "raise"
  ELSE IF Strip(line) = READY THEN "ready" ELSE "other"

\* What one round of the loop does with the buffer `buf`:
\*   server: while arduino.in_waiting > 0: ... ; return True
\*   voice:  while True: if arduino.in_waiting > 0: ...
\* "return True", "return False", or "again" (the loop goes round).
LoopOutcome(v, buf) ==
  IF buf = <<>> THEN (IF v = "server" THEN "return True" ELSE "again")
  ELSE IF ReadyCheck(Head(buf)) = "raise" THEN "return False"
  ELSE IF ReadyCheck(Head(buf)) = "ready" THEN "return True"
  ELSE "again"

\* The loop's condition is evaluated:
\*   server: `while arduino.in_waiting > 0:`, on the lines that have arrived by
\*           then; false ends the loop and init_arduino returns True
\*   voice:  `while True:`
\* and when it holds the thread enters the body.
init_arduino_loop ==
  /\ init_pc = "loop"
  /\ \E arrived \in (IF variant = "server" THEN Arrivals(rx) ELSE {<<>>}) :
       /\ rx' = rx \o arrived
       /\ IF variant = "server" /\ rx \o arrived = <<>>
          THEN /\ init_pc' = "returned"
               /\ init_ret' = PyBool(LoopOutcome(variant, <<>>) = "return True")
          ELSE /\ init_pc' = "body"
               /\ init_ret' = init_ret
  /\ UNCHANGED << variant, arduino, calls, memory >>

\* The loop's body runs once:
\*   server: response = arduino.readline()...; if response == "READY": return True
\*   voice:  if arduino.in_waiting > 0: (the same), on the lines that have
\*           arrived by then
\* and the thread returns, or is back at the loop's condition: a poll of the
\* voice loop that finds nothing changes the thread's position and no more.
init_arduino_body ==
  /\ init_pc = "body"
  /\ \E arrived \in (IF variant = "voice" THEN Arrivals(rx) ELSE {<<>>}) :
       LET buf == rx \o arrived
           out == LoopOutcome(variant, buf)
       IN /\ rx' = IF buf = <<>> THEN buf ELSE Tail(buf)
          /\ init_pc' = IF out = "again" THEN "loop" ELSE "returned"
          /\ init_ret' = IF out = "again" THEN init_ret ELSE PyBool(out = "return True")
  /\ UNCHANGED << variant, arduino, calls, memory >>

\* --------------------------------------------------- send_servo_command
\* The guard left out: the command is written whatever the handle.
NotOpen_unchecked == FALSE

\* The link taken for closed once a write has raised.
NotOpen_after_error == ~arduino.handle \/ ~arduino.is_open \/ nfaults > 0

\* `if not arduino or not arduino.is_open: return False`
NotOpen == ~arduino.handle \/ ~arduino.is_open

\* arduino.write(command.encode('utf-8')) by thread t: it puts the line on the
\* wire (ok), or raises an I/O exception and puts nothing.
Write(t, pin, angle, ok) ==
  /\ ~ok => nfaults < MaxFaults
  /\ nwrites' = [nwrites EXCEPT ![t] = @ + 1]
  /\ nfaults' = IF ok THEN nfaults ELSE nfaults + 1
  /\ allok' = [allok EXCEPT ![t] = @ /\ ok]
  /\ nlines' = [nlines EXCEPT ![t] = IF ok THEN @ + 1 ELSE @]
  /\ wire' = IF ok THEN [by |-> t, text |-> Command(pin, angle)] ELSE wire
  /\ lastCmd' = IF ok THEN [p \in DOMAIN lastCmd \cup {pin} |->
                               IF p = pin THEN angle ELSE lastCmd[p]]
                    ELSE lastCmd
  /\ split' = [split EXCEPT ![t] = @ \/ (ok /\ nlines[t] > 0 /\ wire.by # t)]

NoWrite == UNCHANGED << nwrites, nfaults, allok, nlines, wire, lastCmd, split >>

\* pi_api_server.send_servo_command(pin, angle); `ok` is whether its write,
\* if it makes one, goes through.
send_servo_command_server(t, pin, angle, ok) ==
  /\ sent' = [sent EXCEPT ![t] = Append(@, <<pin, angle>>)]
  /\ IF NotOpen
     THEN ok /\ NoWrite
     ELSE Write(t, pin, angle, ok)

\* The result taken from the write alone.
ServerSendReturn_write(ok) == ok

\* Its return value: False without a write when the link is not open, else
\* True after the write and False from the except clause.
ServerSendReturn(ok) == IF NotOpen THEN FALSE ELSE ok

\* The response compared with the token instead of its beginning.
Acknowledged_exact(line) ==
  IF DecodeRaises(line) THEN FALSE ELSE Strip(line) = OK

\* The acknowledgment: `response.startswith("OK")` of the decoded, stripped
\* line; a decode error is caught and gives False.
Acknowledged(line) ==
  IF DecodeRaises(line) THEN FALSE ELSE StartsWith(Strip(line), OK)

\* voice_stt_tts_fixed.send_servo_command gets as far as arduino.write.
VoiceWrites(servo) == ~NotOpen /\ ~Missing(SERVO_PINS_voice, servo)

\* voice_stt_tts_fixed.send_servo_command(servo, angle); `ok` is whether its
\* write, if it makes one, goes through, and `arrived` are the lines that reach
\* the input buffer before its `arduino.in_waiting > 0` test.
send_servo_command_voice(t, servo, angle, ok, arrived) ==
  /\ sent' = [sent EXCEPT ![t] = Append(@, <<servo, angle>>)]
  /\ IF ~VoiceWrites(servo)
     THEN ok /\ arrived = <<>> /\ NoWrite /\ rx' = rx
     ELSE /\ Write(t, Pin(SERVO_PINS_voice, servo), angle, ok)
          /\ IF ~ok
             THEN arrived = <<>> /\ rx' = rx
             ELSE rx' = IF rx \o arrived = <<>> THEN <<>> ELSE Tail(rx \o arrived)

\* The line its readline returns, NoRead when it does not get to read.
VoiceLineRead(servo, ok, arrived) ==
  IF VoiceWrites(servo) /\ ok /\ rx \o arrived # <<>>
  THEN Head(rx \o arrived) ELSE NoRead

\* Its return value.
VoiceSendReturn(servo, ok, arrived) ==
  /\ VoiceLineRead(servo, ok, arrived) # NoRead
  /\ Acknowledged(VoiceLineRead(servo, ok, arrived))

\* ------------------------------------------------------------------- calls
\* Call c names the same gesture or mood as the first call that finished.
Replays(c) ==
  /\ firstCall.op \in {"perform_gesture", "perform_mood_gesture", "execute_gesture"}
  /\ c.op = firstCall.op
  /\ c.arg = firstCall.arg

\* Thread t starts a call: init_arduino has returned (both programs call it
\* before serving), and the thread is not inside another call.  A behaviour
\* is followed for MaxCalls calls, and one further when that call replays the
\* gesture of the first.  Whether the first call is recorded is left to the
\* specification.
Begin(t, c) ==
  /\ init_pc = "returned"
  /\ \/ ncalls < MaxCalls
     \/ ncalls = MaxCalls /\ Replays(c)
  /\ t \in Callers(variant)
  /\ pc[t] \in {"idle", "done"}
  /\ pc' = [pc EXCEPT ![t] = "run"]
  /\ call' = [call EXCEPT ![t] = c]
  /\ result' = [result EXCEPT ![t] = None]
  /\ sent' = [sent EXCEPT ![t] = <<>>]
  /\ nwrites' = [nwrites EXCEPT ![t] = 0]
  /\ nlines' = [nlines EXCEPT ![t] = 0]
  /\ allok' = [allok EXCEPT ![t] = TRUE]
  /\ split' = [split EXCEPT ![t] = FALSE]
  /\ lastRead' = NoRead
  /\ readStale' = FALSE
  /\ ncalls' = ncalls + 1
  /\ UNCHANGED << link, rx, wire, lastCmd, nfaults, memory >>

\* The record of the first finished call, taken when thread t starts its next.
Record(t) ==
  firstCall' = IF firstCall.op = "none" /\ pc[t] = "done"
               THEN [op |-> call[t].op, arg |-> call[t].arg, sent |-> sent[t],
                     nlines |-> nlines[t]]
               ELSE firstCall

\* No record is kept.
NoRecord == UNCHANGED firstCall

Return(t, value) ==
  /\ pc' = [pc EXCEPT ![t] = "done"]
  /\ result' = [result EXCEPT ![t] = value]

\* POST /api/servo {servo, angle}
control_servo(t, servo, angle) ==
  /\ variant = "server"
  /\ Begin(t, [NoCall EXCEPT !.op = "control_servo", !.arg = <<servo, angle>>])

\* pin = SERVO_PINS.get(servo); if not pin: 'Unknown servo';
\* success = send_servo_command(pin, angle), as far as its arduino.write:
\* the request returns at once for an unknown servo, a link that is not open
\* and a write that raised; after a write that went through the thread is in
\* time.sleep(0.05) (call[t].m = 1) and other requests are served meanwhile.
control_servo_body(t) ==
  /\ pc[t] = "run"
  /\ call[t].op = "control_servo"
  /\ call[t].m = 0
  /\ LET servo == call[t].arg[1]
         angle == call[t].arg[2]
     IN IF Missing(SERVO_PINS_server, servo)
        THEN /\ Return(t, "False")
             /\ NoWrite
             /\ UNCHANGED << sent, call >>
        ELSE \E ok \in BOOLEAN :
               /\ send_servo_command_server(t, Pin(SERVO_PINS_server, servo), angle, ok)
               /\ IF ServerSendReturn(ok)
                  THEN /\ call' = [call EXCEPT ![t].m = 1]
                       /\ UNCHANGED << pc, result >>
                  ELSE /\ Return(t, "False")
                       /\ call' = call
  /\ UNCHANGED << memory, firstCall, link, rx, lastRead, readStale, ncalls >>

\* The sleep after the write is over: send_servo_command returns True and
\* control_servo answers with it.
control_servo_return(t) ==
  /\ pc[t] = "run"
  /\ call[t].op = "control_servo"
  /\ call[t].m = 1
  /\ Return(t, "True")
  /\ UNCHANGED << memory, firstCall, link, rx, call, sent, nwrites, nlines, allok, split, wire,
                  lastCmd, lastRead, readStale, nfaults, ncalls >>

\* POST /api/gesture {gesture}: success = perform_gesture(gesture)
trigger_gesture(t, gesture_name) ==
  /\ variant = "server"
  /\ Begin(t, [NoCall EXCEPT !.op = "perform_gesture", !.arg = gesture_name,
                             !.prog = DictGetDefault(GESTURES, gesture_name, <<>>),
                             !.m = 1])

\* pi_api_server.perform_gesture: `if gesture_name not in GESTURES: return False`
perform_gesture_unknown(t) ==
  /\ variant = "server"
  /\ pc[t] = "run"
  /\ call[t].op = "perform_gesture"
  /\ call[t].arg \notin DOMAIN GESTURES
  /\ Return(t, "False")
  /\ UNCHANGED << memory, firstCall, link, rx, call, sent, nwrites, nlines, allok, split, wire,
                  lastCmd, lastRead, readStale, nfaults, ncalls >>

\* The sequence given up at a failed step.
NextStep_abort(m, ok) == IF ok THEN m + 1 ELSE m + 100

\* The sequence started over after a failed step.
NextStep_restart(m, ok) == IF ok THEN m + 1 ELSE 1

\* A failed step tried again.
NextStep_retry(m, ok) == IF ok THEN m + 1 ELSE m

\* The step the `for` loop takes after step m, whether or not its send succeeded.
NextStep(m, ok) == m + 1

\* One round of `for servo, angle in sequence:`
\*   pin = SERVO_PINS.get(servo); if pin: send_servo_command(pin, angle); sleep
perform_gesture_step(t) ==
  /\ variant = "server"
  /\ pc[t] = "run"
  /\ call[t].op = "perform_gesture"
  /\ call[t].arg \in DOMAIN GESTURES
  /\ call[t].m <= Len(call[t].prog)
  /\ LET servo == call[t].prog[call[t].m][1]
         angle == call[t].prog[call[t].m][2]
     IN IF Missing(SERVO_PINS_server, servo)
        THEN /\ NoWrite /\ sent' = sent
             /\ call' = [call EXCEPT ![t].m = NextStep(@, TRUE)]
        ELSE \E ok \in BOOLEAN :
               /\ send_servo_command_server(t, Pin(SERVO_PINS_server, servo), angle, ok)
               /\ call' = [call EXCEPT ![t].m = NextStep(@, ServerSendReturn(ok))]
  /\ UNCHANGED << memory, firstCall, link, rx, pc, result, lastRead, readStale, ncalls >>

\* The result made to depend on the sends.
PerformReturn_strict(t) == PyBool(allok[t])

\* `return True` after the loop, whatever the sends returned.
PerformReturn(t) == "True"

perform_gesture_return(t) ==
  /\ variant = "server"
  /\ pc[t] = "run"
  /\ call[t].op = "perform_gesture"
  /\ call[t].arg \in DOMAIN GESTURES
  /\ call[t].m > Len(call[t].prog)
  /\ Return(t, PerformReturn(t))
  /\ UNCHANGED << memory, firstCall, link, rx, call, sent, nwrites, nlines, allok, split, wire,
                  lastCmd, lastRead, readStale, nfaults, ncalls >>

\* GET /health: {'status': 'healthy', 'arduino_connected': arduino is not None}
health == [status |-> "healthy", arduino_connected |-> arduino.handle]

\* ------------------------------------------------------------ voice calls
\* send_servo_command(servo, angle) called directly
call_send_servo_command(t, servo, angle) ==
  /\ variant = "voice"
  /\ Begin(t, [NoCall EXCEPT !.op = "send_servo_command", !.arg = <<servo, angle>>])

send_servo_command_body(t) ==
  /\ pc[t] = "run"
  /\ call[t].op = "send_servo_command"
  /\ \E ok \in BOOLEAN, arrived \in Arrivals(rx) :
       /\ send_servo_command_voice(t, call[t].arg[1], call[t].arg[2], ok, arrived)
       /\ Return(t, PyBool(VoiceSendReturn(call[t].arg[1], ok, arrived)))
       /\ lastRead' = VoiceLineRead(call[t].arg[1], ok, arrived)
       /\ readStale' = (VoiceLineRead(call[t].arg[1], ok, arrived) # NoRead /\ rx # <<>>)
  /\ UNCHANGED << memory, firstCall, link, call, ncalls >>

\* smooth_move(servo, target_angle, steps) called directly
call_smooth_move(t, servo, target_angle, steps) ==
  /\ variant = "voice"
  /\ Begin(t, [NoCall EXCEPT !.op = "smooth_move", !.arg = <<servo, target_angle, steps>>,
                             !.prog = << Move(servo, target_angle, steps) >>,
                             !.m = 1])

\* perform_gesture(gesture_name): gesture_func = gestures.get(gesture_name);
\* if gesture_func: gesture_func()
call_perform_gesture(t, gesture_name) ==
  /\ variant = "voice"
  /\ Begin(t, [NoCall EXCEPT !.op = "perform_gesture", !.arg = gesture_name,
                             !.prog = DictGetDefault(gestures, gesture_name, <<>>),
                             !.m = 1])

\* perform_mood_gesture(mood): mood_func = mood_gestures.get(mood);
\* if mood_func: mood_func()
call_perform_mood_gesture(t, mood) ==
  /\ variant = "voice"
  /\ Begin(t, [NoCall EXCEPT !.op = "perform_mood_gesture", !.arg = mood,
                             !.prog = DictGetDefault(mood_gestures, mood, <<>>),
                             !.m = 1])

\* The smooth_move calls execute_gesture(gesture) makes: none for a falsy or
\* "neutral" gesture (it returns at once), gesture_nod() for "yes",
\* gesture_shake() for "no", none for any other.
ExecuteMoves(gesture) ==
  IF gesture = None \/ gesture = "neutral" THEN <<>>
  ELSE IF gesture = "yes" THEN gesture_nod
  ELSE IF gesture = "no" THEN gesture_shake
  ELSE <<>>

\* execute_gesture(gesture), through which main() moves the servos
execute_gesture(t, gesture) ==
  /\ variant = "voice"
  /\ Begin(t, [NoCall EXCEPT !.op = "execute_gesture", !.arg = gesture,
                             !.prog = ExecuteMoves(gesture),
                             !.m = 1])

MoveOps == {"smooth_move", "perform_gesture", "perform_mood_gesture", "execute_gesture"}

\* The test of the link left out of smooth_move.
SmoothMoveAt_unguarded(mv, i) ==
  IF mv.steps = 0 THEN "return"
  ELSE IF i >= mv.steps THEN "return"
  ELSE "send"

\* range(steps) cut one short.
SmoothMoveAt_short(mv, i) ==
  IF i = 0 /\ NotOpen THEN "return"
  ELSE IF mv.steps = 0 THEN "return"
  ELSE IF i >= mv.steps - 1 THEN "return"
  ELSE "send"

\* How smooth_move goes on at step i of move mv: "return" when the link is not
\* open at its start, when the division by steps raises (caught), or when
\* range(steps) is exhausted; "send" otherwise.
SmoothMoveAt(mv, i) ==
  IF i = 0 /\ NotOpen THEN "return"
  ELSE IF mv.steps = 0 THEN "return"
  ELSE IF i >= mv.steps THEN "return"
  ELSE "send"

\* The start taken from the angle last commanded to the servo.
CurrentPos_tracked(servo) ==
  IF Pin(SERVO_PINS_voice, servo) \in DOMAIN lastCmd
  THEN lastCmd[Pin(SERVO_PINS_voice, servo)]
  ELSE DictGetDefault(SERVO_REST, servo, 90)

\* current_pos = SERVO_REST.get(servo, 90)
CurrentPos(servo) == DictGetDefault(SERVO_REST, servo, 90)

\* One step of the smooth_move the call is in: one round of
\*   for i in range(steps): angle = ...; send_servo_command(servo, angle); sleep
\* or its return to the gesture function, which goes on to its next smooth_move.
smooth_move_step(t) ==
  /\ variant = "voice"
  /\ pc[t] = "run"
  /\ call[t].op \in MoveOps
  /\ call[t].m <= Len(call[t].prog)
  /\ LET mv == call[t].prog[call[t].m]
         i == call[t].i
         current_pos == CurrentPos(mv.servo)
     IN IF SmoothMoveAt(mv, i) = "return"
        THEN /\ call' = [call EXCEPT ![t].m = @ + 1, ![t].i = 0]
             /\ NoWrite
             /\ UNCHANGED << sent, rx >>
        ELSE /\ \E angle \in {StepAngle(current_pos, mv.target, mv.steps, i)} :
                  \E ok \in BOOLEAN, arrived \in Arrivals(rx) :
                    send_servo_command_voice(t, mv.servo, angle, ok, arrived)
             /\ call' = [call EXCEPT ![t].i = @ + 1]
  /\ UNCHANGED << memory, firstCall, link, pc, result, lastRead, readStale, ncalls >>

\* The gesture function, perform_gesture, perform_mood_gesture, execute_gesture
\* and smooth_move return no value: the call returns None.
moves_return(t) ==
  /\ variant = "voice"
  /\ pc[t] = "run"
  /\ call[t].op \in MoveOps
  /\ call[t].m > Len(call[t].prog)
  /\ Return(t, None)
  /\ UNCHANGED << memory, firstCall, link, rx, call, sent, nwrites, nlines, allok, split, wire,
                  lastCmd, lastRead, readStale, nfaults, ncalls >>

\* ------------------------------------------------------ conversation memory
MAX_TURNS == 10

\* seq[-n:], n > 0: the last n elements, all of them when there are fewer.
LastN_first(seq, n) == IF Len(seq) <= n THEN seq ELSE SubSeq(seq, 1, n)

LastN(seq, n) == IF Len(seq) <= n THEN seq ELSE SubSeq(seq, Len(seq) - n + 1, Len(seq))

\* The list after add_to_memory(role, content):
\*   conversation_history.append({"role": role, "content": content})
\*   if len(conversation_history) > MAX_TURNS * 2 + 1:
\*       conversation_history[:] = conversation_history[-(MAX_TURNS * 2 + 1):]
Added(history, role, content) ==
  LET appended == Append(history, [role |-> role, content |-> content])
  IN IF Len(appended) > MAX_TURNS * 2 + 1
     THEN LastN(appended, MAX_TURNS * 2 + 1)
     ELSE appended

\* add_to_memory(role, content); the content is the number of the call since
\* the list was last cleared, which tells the entries apart.
add_to_memory(role) ==
  /\ variant = "voice"
  /\ nadded < MaxAdds
  /\ conversation_history' = Added(conversation_history, role, nadded + 1)
  /\ nadded' = nadded + 1
  /\ UNCHANGED << arduino, rx, init_pc, init_ret, variant, calls >>

\* get_ai_response: add_to_memory("user", user_message) on entry
get_ai_response_user == add_to_memory("user")

\* get_ai_response: add_to_memory("assistant", speech) once the reply has been
\* parsed, right after the user's entry; skipped when the request or the
\* parsing raised.
get_ai_response_assistant ==
  /\ conversation_history # <<>>
  /\ conversation_history[Len(conversation_history)].role = "user"
  /\ add_to_memory("assistant")

\* clear_memory(): conversation_history.clear()
clear_memory ==
  /\ variant = "voice"
  /\ conversation_history' = <<>>
  /\ nadded' = 0
  /\ UNCHANGED << arduino, rx, init_pc, init_ret, variant, calls >>

\* ---------------------------------------------------------- specifications
\* The thread whose calls the sequential specification follows.
Main == "main"

\* Both programs, their calls made one at a time by one thread.
Next ==
  \/ init_arduino_open
  \/ init_arduino_loop
  \/ init_arduino_body
  \/ \E servo \in ServoNames, angle \in AngleInputs : control_servo(Main, servo, angle) /\ NoRecord
  \/ control_servo_body(Main)
  \/ control_servo_return(Main)
  \/ \E g \in GestureNames : trigger_gesture(Main, g) /\ NoRecord
  \/ perform_gesture_unknown(Main)
  \/ perform_gesture_step(Main)
  \/ perform_gesture_return(Main)
  \/ \E servo \in ServoNames, angle \in AngleInputs :
       call_send_servo_command(Main, servo, angle) /\ NoRecord
  \/ send_servo_command_body(Main)
  \/ \E servo \in ServoNames, target \in TargetInputs, steps \in StepInputs :
       call_smooth_move(Main, servo, target, steps) /\ NoRecord
  \/ \E g \in GestureNames : call_perform_gesture(Main, g) /\ NoRecord
  \/ \E mood \in GestureNames : call_perform_mood_gesture(Main, mood) /\ NoRecord
  \/ \E g \in ExecuteInputs : execute_gesture(Main, g) /\ NoRecord
  \/ smooth_move_step(Main)
  \/ moves_return(Main)

Spec == Init /\ [][Next]_vars

\* Both programs with the server's request threads running concurrently (Flask
\* serves each request on its own thread) and the voice loop on its one thread,
\* attached to a device whose lines never queue up: each is read by the step
\* it arrives in, or, when the server's handshake finds it, by the next.
ConcInit == Init

ConcNext ==
  \/ init_arduino_open /\ rx' = <<>>
  \/ init_arduino_loop /\ Len(rx') <= 1
  \/ init_arduino_body /\ rx' = <<>>
  \/ \E t \in Threads, servo \in ServoNames, angle \in AngleInputs :
       control_servo(t, servo, angle) /\ NoRecord
  \/ \E t \in Threads : control_servo_body(t)
  \/ \E t \in Threads : control_servo_return(t)
  \/ \E t \in Threads, g \in GestureNames : trigger_gesture(t, g) /\ NoRecord
  \/ \E t \in Threads : perform_gesture_unknown(t)
  \/ \E t \in Threads : perform_gesture_step(t)
  \/ \E t \in Threads : perform_gesture_return(t)
  \/ \E t \in Threads, servo \in ServoNames, target \in TargetInputs, steps \in StepInputs :
       call_smooth_move(t, servo, target, steps) /\ NoRecord
  \/ \E t \in Threads, g \in GestureNames : call_perform_gesture(t, g) /\ NoRecord
  \/ \E t \in Threads, mood \in GestureNames : call_perform_mood_gesture(t, mood) /\ NoRecord
  \/ \E t \in Threads, g \in ExecuteInputs : execute_gesture(t, g) /\ NoRecord
  \/ \E t \in Threads : smooth_move_step(t) /\ rx' = <<>>
  \/ \E t \in Threads : moves_return(t)

ConcSpec == ConcInit /\ [][ConcNext]_vars

\* Both programs, their calls made one at a time by one thread that records
\* the first call it finished, attached to a device whose lines never queue up.
ReplayNext ==
  \/ init_arduino_open /\ rx' = <<>>
  \/ init_arduino_loop /\ Len(rx') <= 1
  \/ init_arduino_body /\ rx' = <<>>
  \/ \E servo \in ServoNames, angle \in AngleInputs :
       control_servo(Main, servo, angle) /\ Record(Main)
  \/ control_servo_body(Main)
  \/ control_servo_return(Main)
  \/ \E g \in GestureNames : trigger_gesture(Main, g) /\ Record(Main)
  \/ perform_gesture_unknown(Main)
  \/ perform_gesture_step(Main)
  \/ perform_gesture_return(Main)
  \/ \E servo \in ServoNames, angle \in AngleInputs :
       call_send_servo_command(Main, servo, angle) /\ Record(Main)
  \/ send_servo_command_body(Main) /\ rx' = <<>>
  \/ \E servo \in ServoNames, target \in TargetInputs, steps \in StepInputs :
       call_smooth_move(Main, servo, target, steps) /\ Record(Main)
  \/ \E g \in GestureNames : call_perform_gesture(Main, g) /\ Record(Main)
  \/ \E mood \in GestureNames : call_perform_mood_gesture(Main, mood) /\ Record(Main)
  \/ \E g \in ExecuteInputs : execute_gesture(Main, g) /\ Record(Main)
  \/ smooth_move_step(Main) /\ rx' = <<>>
  \/ moves_return(Main)

ReplaySpec == Init /\ [][ReplayNext]_vars

\* Both programs, their calls made one at a time by one thread that always
\* gets to run, attached to a device whose lines never queue up.
FairNext ==
  \/ init_arduino_open /\ rx' = <<>>
  \/ init_arduino_loop /\ Len(rx') <= 1
  \/ init_arduino_body /\ rx' = <<>>
  \/ \E servo \in ServoNames, angle \in AngleInputs :
       control_servo(Main, servo, angle) /\ NoRecord
  \/ control_servo_body(Main)
  \/ control_servo_return(Main)
  \/ \E g \in GestureNames : trigger_gesture(Main, g) /\ NoRecord
  \/ perform_gesture_unknown(Main)
  \/ perform_gesture_step(Main)
  \/ perform_gesture_return(Main)
  \/ \E servo \in ServoNames, angle \in AngleInputs :
       call_send_servo_command(Main, servo, angle) /\ NoRecord
  \/ send_servo_command_body(Main) /\ rx' = <<>>
  \/ \E servo \in ServoNames, target \in TargetInputs, steps \in StepInputs :
       call_smooth_move(Main, servo, target, steps) /\ NoRecord
  \/ \E g \in GestureNames : call_perform_gesture(Main, g) /\ NoRecord
  \/ \E mood \in GestureNames : call_perform_mood_gesture(Main, mood) /\ NoRecord
  \/ \E g \in ExecuteInputs : execute_gesture(Main, g) /\ NoRecord
  \/ smooth_move_step(Main) /\ rx' = <<>>
  \/ moves_return(Main)

FairSpec == Init /\ [][FairNext]_vars /\ WF_vars(FairNext)

\* The perform calls of both programs, made one at a time against a device
\* that sends what it likes, the thread that runs them always getting to run.
PerformNext ==
  \/ init_arduino_open
  \/ init_arduino_loop
  \/ init_arduino_body
  \/ \E g \in GestureNames : trigger_gesture(Main, g) /\ NoRecord
  \/ perform_gesture_unknown(Main)
  \/ perform_gesture_step(Main)
  \/ perform_gesture_return(Main)
  \/ \E g \in GestureNames : call_perform_gesture(Main, g) /\ NoRecord
  \/ \E mood \in GestureNames : call_perform_mood_gesture(Main, mood) /\ NoRecord
  \/ \E g \in ExecuteInputs : execute_gesture(Main, g) /\ NoRecord
  \/ smooth_move_step(Main)
  \/ moves_return(Main)

PerformSpec == Init /\ [][PerformNext]_vars /\ WF_vars(PerformNext)

\* The conversation memory of the voice loop alone.
MemoryNext ==
  \/ get_ai_response_user
  \/ get_ai_response_assistant
  \/ clear_memory

MemorySpec == Init /\ [][MemoryNext]_vars

\* init_arduino alone, with the thread that runs it always getting to run;
\* the device sends what it likes when it likes, or nothing.
ConnectNext == init_arduino_open \/ init_arduino_loop \/ init_arduino_body

ConnectSpec == Init /\ [][ConnectNext]_vars /\ WF_vars(ConnectNext)

\* ------------------------------------------------------------------ claims
\* The actuator names each program binds to a channel.
KnownServos(v) == IF v = "server" THEN {"pan", "left_arm", "right_arm"}
                  ELSE {"head", "pan", "left_arm", "right_arm"}

\* The link is disconnected: the handle was never opened, or is not open.
LinkDisconnected == arduino = NoHandle \/ arduino.is_open = FALSE

\* A finished call of send: control_servo's in the server, a direct
\* send_servo_command in the voice loop.
SendDone(t) ==
  /\ pc[t] = "done"
  /\ call[t].op \in {"control_servo", "send_servo_command"}

\* C1: for every valid (actuator, angle) pair, in both variants, a send on a
\* disconnected link returns False, calls write not once and puts no line on
\* the wire.
C1_DisconnectedSendFails ==
  \A t \in Threads :
    (SendDone(t) /\ call[t].arg[1] \in KnownServos(variant) /\ LinkDisconnected)
      => /\ result[t] = "False"
         /\ nwrites[t] = 0
         /\ nlines[t] = 0
         /\ wire = NoLine

\* C1's case: a send for a known actuator finished on a link that never opened.
C1_Witness ==
  \E t \in Threads :
    /\ SendDone(t)
    /\ call[t].arg[1] \in KnownServos(variant)
    /\ LinkDisconnected
    /\ init_ret = "False"

\* C2 (as claimed): the lines of one perform call are never separated on the
\* wire by a line of a concurrent perform call.
C2_NoInterleaving ==
  (call["main"].op = "perform_gesture" /\ call["worker"].op = "perform_gesture")
    => (~split["main"] /\ ~split["worker"])

\* C3 (as claimed): once the port is open, init_arduino does not wait for ever:
\* it returns, whatever the device sends or does not send.
C3_ConnectReturns ==
  (init_pc = "loop") ~> (init_pc = "returned")

\* A finished smooth_move called directly.
SmoothDone(t) == pc[t] = "done" /\ call[t].op = "smooth_move"

\* Angle `angle` follows `prev` on the way from `start` to `target`: in the
\* direction of the target, and no farther from it than `prev`.
Toward(start, target, prev, angle) ==
  /\ IF target > start THEN prev <= angle
     ELSE IF target < start THEN angle <= prev
     ELSE angle = start
  /\ Abs(target - angle) <= Abs(target - prev)

\* C4: with the link open, smooth_move(servo, target, steps=N) makes exactly N
\* send calls, all for its servo, and their angles approach the target from
\* the start angle monotonically: non-decreasing if the target is above the
\* start, non-increasing if it is below.
C4_SmoothMoveSends ==
  \A t \in Threads :
    (SmoothDone(t) /\ ~LinkDisconnected) =>
      LET servo == call[t].arg[1]
          target == call[t].arg[2]
          N == call[t].arg[3]
          start == DictGetDefault(SERVO_REST, servo, 90)
      IN /\ Len(sent[t]) = N
         /\ \A k \in 1..Len(sent[t]) :
              /\ sent[t][k][1] = servo
              /\ Toward(start, target,
                        IF k = 1 THEN start ELSE sent[t][k - 1][2], sent[t][k][2])

\* C4's case: a seven-step smooth_move down to 32 finished on an open link, its
\* first angle above its last, which the float arithmetic leaves at 31.
C4_Witness ==
  \E t \in Threads :
    /\ SmoothDone(t) /\ ~LinkDisconnected
    /\ call[t].arg[2] = 32 /\ call[t].arg[3] = 7
    /\ Len(sent[t]) = 7
    /\ sent[t][1][2] > sent[t][7][2]
    /\ sent[t][7][2] = 31

\* The names each perform function recognizes.
Recognized(v, op) ==
  IF v = "server"
  THEN {"wave", "nod", "shake", "happy", "sad", "excited", "curious", "rest"}
  ELSE IF op = "perform_gesture" THEN {"wave", "nod", "shake", "rest"}
  ELSE IF op = "perform_mood_gesture" THEN {"happy", "sad", "excited", "curious"}
  ELSE {"yes", "no"}

PerformOps == {"perform_gesture", "perform_mood_gesture", "execute_gesture"}

\* A finished perform call.
PerformDone(t) == pc[t] = "done" /\ call[t].op \in PerformOps

\* C5 (as claimed): perform returns False only for an unrecognized name, and
\* True for every recognized name.
C5_PerformTrueIffRecognized ==
  \A t \in Threads :
    PerformDone(t) =>
      /\ result[t] = "False" => call[t].arg \notin Recognized(variant, call[t].op)
      /\ call[t].arg \in Recognized(variant, call[t].op) => result[t] = "True"

\* C5 (amended): the server's perform_gesture returns False only for an
\* unrecognized name and True for every recognized name, also when steps failed
\* and when no hardware is attached; the voice loop's perform_gesture and
\* perform_mood_gesture, and execute_gesture, return None for every name;
\* without hardware none attempts a write.
C5_PerformReturn ==
  \A t \in Threads :
    PerformDone(t) =>
      /\ variant = "server" =>
           result[t] = PyBool(call[t].arg \in Recognized(variant, call[t].op))
      /\ variant = "voice" => result[t] = None
      /\ LinkDisconnected => (nwrites[t] = 0 /\ nlines[t] = 0)

\* C5's case: the server performed a recognized gesture, a step's write
\* raised, and the call returned True.
C5_Witness ==
  \E t \in Threads :
    /\ PerformDone(t) /\ variant = "server"
    /\ call[t].arg \in Recognized(variant, call[t].op)
    /\ ~allok[t]
    /\ result[t] = "True"

\* The send calls of one smooth_move, in order.
MoveSends(mv) ==
  [k \in 1..mv.steps |->
     <<mv.servo, StepAngle(DictGetDefault(SERVO_REST, mv.servo, 90), mv.target,
                           mv.steps, k - 1)>>]

RECURSIVE ExpandMoves(_)
ExpandMoves(prog) ==
  IF prog = <<>> THEN <<>> ELSE MoveSends(Head(prog)) \o ExpandMoves(Tail(prog))

\* The smooth_move calls the voice loop's catalog prescribes for a recognized
\* name.
CatalogMoves(op, name) ==
  IF op = "perform_gesture" THEN gestures[name]
  ELSE IF op = "perform_mood_gesture" THEN mood_gestures[name]
  ELSE IF name = "yes" THEN gesture_nod
  ELSE gesture_shake

\* The send calls the catalog prescribes for the call of thread t, in order.
CatalogSends(t) ==
  IF call[t].arg \notin Recognized(variant, call[t].op) THEN <<>>
  ELSE IF variant = "server"
  THEN [k \in 1..Len(GESTURES[call[t].arg]) |->
          <<Pin(SERVO_PINS_server, GESTURES[call[t].arg][k][1]),
            GESTURES[call[t].arg][k][2]>>]
  ELSE IF LinkDisconnected THEN <<>>
  ELSE ExpandMoves(CatalogMoves(call[t].op, call[t].arg))

Prefix(s, full) == Len(s) <= Len(full) /\ s = SubSeq(full, 1, Len(s))

\* C6: within one perform call the sends made so far are always the first
\* steps of the gesture's catalog sequence, each once and in catalog order, a
\* failed one not repeated and not ending the sequence, and the finished call
\* has made them all; also with another call running concurrently.
C6_StepsOnceInOrder ==
  \A t \in Threads :
    call[t].op \in PerformOps =>
      /\ Prefix(sent[t], CatalogSends(t))
      /\ pc[t] = "done" => sent[t] = CatalogSends(t)
      /\ (variant = "server" /\ ~LinkDisconnected) => nwrites[t] = Len(sent[t])

\* C6's case: a server gesture finished all its steps though a write of it
\* raised, while the other thread is in the middle of a gesture of its own.
C6_Witness ==
  \E t \in Threads, u \in Threads :
    /\ t # u
    /\ PerformDone(t) /\ variant = "server" /\ ~allok[t]
    /\ Len(sent[t]) > 1 /\ sent[t] = CatalogSends(t)
    /\ call[u].op = "perform_gesture" /\ pc[u] = "run" /\ Len(sent[u]) > 0

\* C7 (as claimed): once a write has raised an I/O exception the link is
\* Disconnected, and every later send for a known actuator returns False
\* without attempting a write.
C7_DisconnectedAfterError ==
  \A t \in Threads :
    (SendDone(t) /\ call[t].arg[1] \in KnownServos(variant) /\ nfaults > 0 /\ allok[t])
      => /\ LinkDisconnected
         /\ result[t] = "False"
         /\ nwrites[t] = 0

\* C7 (amended): an I/O exception leaves the link as it was, open, and nothing
\* reconnects it; every later send for a known actuator attempts its write
\* again, and in the server returns True when that write goes through.
C7_LinkKeptAfterError ==
  nfaults > 0 =>
    /\ ~LinkDisconnected
    /\ \A t \in Threads :
         (SendDone(t) /\ call[t].arg[1] \in KnownServos(variant)) =>
           /\ nwrites[t] = 1
           /\ variant = "server" => result[t] = PyBool(allok[t])

\* C7's case: after a write raised in an earlier call, a send of the server
\* wrote its line and returned True.
C7_Witness ==
  \E t \in Threads :
    /\ SendDone(t) /\ call[t].arg[1] \in KnownServos(variant)
    /\ nfaults > 0 /\ allok[t]
    /\ variant = "server"
    /\ nwrites[t] = 1 /\ wire.by = t
    /\ result[t] = "True"

\* A finished direct send of the voice loop for a known actuator on an open link.
AckSendDone(t) ==
  /\ pc[t] = "done" /\ call[t].op = "send_servo_command"
  /\ variant = "voice"
  /\ call[t].arg[1] \in KnownServos(variant)
  /\ ~LinkDisconnected

\* C8 (as claimed): the acknowledged send returns True exactly when the line
\* it read begins with "OK"; False on any other line and when no line came.
C8_AckIffBeginsOK ==
  \A t \in Threads :
    AckSendDone(t) =>
      (result[t] = "True" <=> (lastRead # NoRead /\ StartsWith(lastRead, OK)))

\* C8 (amended): the acknowledged send returns True exactly when the line it
\* read is valid UTF-8 and, leading whitespace aside, begins with "OK"; False
\* on any other line, on a line that does not decode, when no line came, and
\* when its write raised.
C8_AckIffStrippedOK ==
  \A t \in Threads :
    AckSendDone(t) =>
      /\ result[t] \in {"True", "False"}
      /\ result[t] = "True" <=>
           /\ lastRead # NoRead
           /\ \A k \in 1..Len(lastRead) : lastRead[k] # InvalidByte
           /\ StartsWith(LStrip(lastRead), OK)
      /\ ~allok[t] => lastRead = NoRead

\* C8's case: the line read was " OK 2" and the send returned True.
C8_Witness ==
  \E t \in Threads :
    /\ AckSendDone(t)
    /\ lastRead = LinePadded
    /\ result[t] = "True"

\* The call of thread t names an actuator or a gesture outside the catalog.
UnknownCall(t) ==
  \/ /\ call[t].op \in {"control_servo", "send_servo_command"}
     /\ call[t].arg[1] \notin KnownServos(variant)
  \/ /\ call[t].op \in PerformOps
     /\ call[t].arg \notin Recognized(variant, call[t].op)

\* A finished call that names an actuator or a gesture outside the catalog.
UnknownDone(t) == pc[t] = "done" /\ UnknownCall(t)

\* C9 (as claimed): a call that names an actuator or a gesture outside the
\* catalog returns "unknown"/false without attempting any I/O, whatever the
\* link state.
C9_UnknownReturnsFalse ==
  \A t \in Threads :
    UnknownDone(t) =>
      /\ nwrites[t] = 0
      /\ nlines[t] = 0
      /\ result[t] = "False"

\* C9 (amended): a call that names an actuator or a gesture outside the
\* catalog makes no write and puts no line on the wire, whatever the link
\* state, raises nothing and returns; control_servo, send_servo_command and
\* the server's perform_gesture return False, while the voice loop's
\* perform_gesture, perform_mood_gesture and execute_gesture return no value
\* (None), as they do for a recognized name.
C9_UnknownNoIO ==
  /\ [](\A t \in Threads :
          UnknownCall(t) =>
            /\ nwrites[t] = 0
            /\ nlines[t] = 0
            /\ allok[t]
            /\ call[t].op \in PerformOps => sent[t] = <<>>
            /\ pc[t] = "done" =>
                 result[t] = IF variant = "voice" /\ call[t].op \in PerformOps
                             THEN None ELSE "False")
  /\ \A t \in Threads : (pc[t] = "run" /\ UnknownCall(t)) ~> (pc[t] = "done")

\* C9's case: the voice loop's perform_gesture("dance") finished on an open
\* link as the second call of the behaviour; it returned no value and wrote
\* nothing.
C9_Witness ==
  \E t \in Threads :
    /\ UnknownDone(t)
    /\ variant = "voice"
    /\ call[t].op = "perform_gesture"
    /\ call[t].arg = "dance"
    /\ ncalls = MaxCalls
    /\ ~LinkDisconnected
    /\ result[t] = None
    /\ nwrites[t] = 0
    /\ sent[t] = <<>>

\* The gestures that end with the return to rest of all actuators; nod and
\* shake end with the return of pan alone.
RestEnding(v, op) ==
  IF v = "server" THEN {"wave", "happy", "sad", "excited", "curious", "rest"}
  ELSE IF op = "perform_gesture" THEN {"wave", "rest"}
  ELSE IF op = "perform_mood_gesture" THEN {"happy", "sad", "excited", "curious"}
  ELSE {}

\* A gesture ending in the rest sequence finished on a link that is open and
\* whose writes all went through.
RestGestureDone(t) ==
  /\ PerformDone(t)
  /\ call[t].arg \in RestEnding(variant, call[t].op)
  /\ ~LinkDisconnected
  /\ allok[t]

\* C10: after a gesture that ends in the rest sequence has completed on a
\* working link, the last angle commanded on the channel of each of pan,
\* left_arm and right_arm is 90, whatever was commanded before.
C10_RestAngles ==
  \A t \in Threads :
    RestGestureDone(t) =>
      \A servo \in {"pan", "left_arm", "right_arm"} :
        /\ Pin(SERVO_PINS(variant), servo) \in DOMAIN lastCmd
        /\ lastCmd[Pin(SERVO_PINS(variant), servo)] = 90

\* C10's case: a gesture that raised the arms to 170 finished with every
\* channel back at 90.
C10_Witness ==
  \E t \in Threads :
    /\ RestGestureDone(t)
    /\ \E k \in 1..Len(sent[t]) : sent[t][k][2] = 170
    /\ \A p \in Pins : p \in DOMAIN lastCmd /\ lastCmd[p] = 90

\* The (channel, angle) pairs of a sequence of sends: the server's sends name
\* the channel, the voice loop's the actuator.
Channels(v, seq) ==
  [k \in 1..Len(seq) |->
     << IF v = "server" THEN seq[k][1] ELSE Pin(SERVO_PINS_voice, seq[k][1]),
        seq[k][2] >>]

\* Thread t has finished a perform call that names the same gesture or mood
\* as the first call of the behaviour.
ReplayDone(t) ==
  /\ PerformDone(t)
  /\ firstCall.op = call[t].op
  /\ firstCall.arg = call[t].arg

\* C11: a gesture name performed again produces the same ordered sequence of
\* (channel, angle) pairs as the first time, whatever call was made in between.
C11_ReplayIdentical ==
  \A t \in Threads :
    ReplayDone(t) =>
      Channels(variant, sent[t]) = Channels(variant, firstCall.sent)

\* C11's case: the third call of a behaviour replayed the gesture of the first
\* on an open link, another call having been made between the two, and a write
\* raised in one of the three.
C11_Witness ==
  \E t \in Threads :
    /\ ReplayDone(t)
    /\ ncalls = MaxCalls + 1
    /\ ~LinkDisconnected
    /\ nfaults > 0
    /\ Len(sent[t]) > 2
    /\ sent[t] = firstCall.sent

\* init_arduino has returned and the port could not be opened.
OpenFailed == init_pc = "returned" /\ ~arduino.handle

\* C12: when the port cannot be opened init_arduino returns False, and every
\* send made afterwards returns False, without a write and without an
\* exception; calls go on being served.
C12_FailedOpenDegraded ==
  OpenFailed =>
    /\ init_ret = "False"
    /\ nfaults = 0
    /\ wire = NoLine
    /\ \A t \in Threads :
         SendDone(t) => (result[t] = "False" /\ nwrites[t] = 0 /\ allok[t])

\* C12's case: the port did not open, and the second call served afterwards, a
\* send to pan, returned False.
C12_Witness ==
  \E t \in Threads :
    /\ OpenFailed
    /\ ncalls = MaxCalls
    /\ SendDone(t)
    /\ call[t].arg[1] = "pan"
    /\ result[t] = "False"

\* C13: smooth_move called while the link is not open does nothing: it makes
\* no send, no write, puts no line on the wire, and returns to its caller
\* without a value and without an exception.
C13_SmoothMoveNoOp ==
  \A t \in Threads :
    (SmoothDone(t) /\ LinkDisconnected) =>
      /\ sent[t] = <<>>
      /\ nwrites[t] = 0
      /\ nlines[t] = 0
      /\ allok[t]
      /\ result[t] = None

\* C13's case: a seven-step smooth_move of a known actuator finished on a link
\* that never opened.
C13_Witness ==
  \E t \in Threads :
    /\ SmoothDone(t) /\ LinkDisconnected
    /\ call[t].arg[1] \in KnownServos(variant)
    /\ call[t].arg[3] = 7
    /\ sent[t] = <<>>

\* The channel bound to each actuator name.
Channel(servo) ==
  CASE servo \in {"pan", "head"} -> 2
    [] servo = "left_arm" -> 4
    [] servo = "right_arm" -> 5

\* C14: a send that returned True made one write of one line, and the line is
\* "<channel>:<angle>\n" with the channel bound to the actuator name and the
\* angle as requested.
C14_OneLinePerSend ==
  \A t \in Threads :
    (SendDone(t) /\ result[t] = "True") =>
      /\ call[t].arg[1] \in KnownServos(variant)
      /\ nwrites[t] = 1
      /\ nlines[t] = 1
      /\ wire.by = t
      /\ wire.text = IntToBytes(Channel(call[t].arg[1])) \o <<":">>
                       \o IntToBytes(call[t].arg[2]) \o <<"LF">>

\* C14's case: send_servo_command("left_arm", 170) read "OK", returned True
\* and the line on the wire is "4:170\n".
C14_Witness ==
  \E t \in Threads :
    /\ SendDone(t) /\ variant = "voice"
    /\ call[t].arg = <<"left_arm", 170>>
    /\ lastRead = LineOK
    /\ result[t] = "True"
    /\ wire.text = <<"4", ":", "1", "7", "0", "LF">>

\* Thread t is inside a perform call for a recognized name.
PerformRunning(t) ==
  /\ pc[t] = "run"
  /\ call[t].op \in PerformOps
  /\ call[t].arg \in Recognized(variant, call[t].op)

RECURSIVE CountSteps(_)
CountSteps(prog) ==
  IF prog = <<>> THEN 0 ELSE Head(prog).steps + CountSteps(Tail(prog))

\* The number of steps the catalog sequence of the call of thread t has.
CatalogSteps(t) ==
  IF call[t].arg \notin Recognized(variant, call[t].op) THEN 0
  ELSE IF variant = "server" THEN Len(GESTURES[call[t].arg])
  ELSE CountSteps(CatalogMoves(call[t].op, call[t].arg))

\* C15: a perform call for a recognized gesture or mood name never makes more
\* sends than its catalog sequence has steps, and it returns, whatever the
\* link state, the lines the device sends and the writes that raise.
C15_PerformTerminates ==
  /\ [](\A t \in Threads :
          call[t].op \in PerformOps => Len(sent[t]) <= CatalogSteps(t))
  /\ \A t \in Threads : PerformRunning(t) ~> (pc[t] = "done")

\* C15's case: a gesture of the voice loop finished on an open link though a
\* write of it raised and the device sent a line that does not decode.
C15_Witness ==
  \E t \in Threads :
    /\ PerformDone(t) /\ variant = "voice"
    /\ call[t].arg \in Recognized(variant, call[t].op)
    /\ ~LinkDisconnected
    /\ ~allok[t]
    /\ Len(sent[t]) > 2
    /\ \E k \in 1..Len(rx) : rx[k] = LineGarbled

\* The smaller of two numbers.
Min(a, b) == IF a < b THEN a ELSE b

\* C16: after any sequence of add_to_memory and clear_memory calls the
\* history holds at most 2*MAX_TURNS+1 = 21 entries, and they are the entries
\* added last since the last clear, in the order they were added.
C16_MemoryBounded ==
  /\ Len(conversation_history) <= 21
  /\ Len(conversation_history) = Min(nadded, 2 * MAX_TURNS + 1)
  /\ \A k \in 1..Len(conversation_history) :
       conversation_history[k].content = nadded - Len(conversation_history) + k

\* C16's case: more than 21 entries were added since the last clear, and the
\* history holds the last 21 of them.
C16_Witness ==
  /\ nadded > 22
  /\ Len(conversation_history) = 21
  /\ conversation_history[1].content = nadded - 20
  /\ conversation_history[21].content = nadded

\* C17 (as claimed): when an acknowledged send returns True, the line it read
\* reached the input buffer after the command was written: it is not a line
\* left unread from the handshake or from an earlier command.
C17_AckIsFresh ==
  \A t \in Threads :
    (AckSendDone(t) /\ result[t] = "True") => ~readStale

\* C18 (as claimed): whenever init_arduino has returned False the link is
\* unusable: every later send returns False without a write, no line reaches
\* the wire, and the health report does not show the link as connected.
C18_FailedConnectUnusable ==
  init_ret = "False" =>
    /\ \A t \in Threads :
         SendDone(t) => (result[t] = "False" /\ nwrites[t] = 0)
    /\ wire = NoLine
    /\ variant = "server" => ~health.arduino_connected

\* The sends of smooth_move(servo, target, steps) interpolated from 90.
FromRest(servo, target, steps) ==
  [k \in 1..steps |-> <<servo, StepAngle(90, target, steps, k - 1)>>]

\* C19: the angles a smooth_move call issues on an open link are interpolated
\* from the rest angle 90 to the target, whatever was commanded to the
\* actuator before: the sends made so far are always the first of that
\* sequence, and the finished call has made all of it.
C19_SmoothMoveFromRest ==
  \A t \in Threads :
    (call[t].op = "smooth_move" /\ ~LinkDisconnected) =>
      LET expected == FromRest(call[t].arg[1], call[t].arg[2], call[t].arg[3])
      IN /\ Prefix(sent[t], expected)
         /\ pc[t] = "done" => sent[t] = expected

\* C19's case: pan was commanded to 30 by a send that reached the wire, and a
\* seven-step smooth_move of pan to 32 then issued 81, 73, 65, 56, 48, 40, 31.
C19_Witness ==
  \E t \in Threads :
    /\ SmoothDone(t) /\ ~LinkDisconnected
    /\ firstCall.op = "send_servo_command"
    /\ firstCall.arg = <<"pan", 30>>
    /\ firstCall.nlines = 1
    /\ call[t].arg = <<"pan", 32, 7>>
    /\ sent[t] = << <<"pan", 81>>, <<"pan", 73>>, <<"pan", 65>>, <<"pan", 56>>,
                    <<"pan", 48>>, <<"pan", 40>>, <<"pan", 31>> >>

====
